---- MODULE Spec2Model ----
(***************************************************************************)
(* GPS NMEA logger (locness_nmea_gps/gps.py, main.py).                     *)
(*                                                                         *)
(* One process.  main() builds a GPSLogger (which initialises the CSV file *)
(* and the SQLite table) and then runs either start_logging (continuous    *)
(* mode) or read_gga_single (single-shot mode, through read_GPS).          *)
(* The serial device, the NMEA decoder, the clock, the file system's       *)
(* failures and the operator's Ctrl-C are the environment: each is a       *)
(* choice drawn from a small set.                                          *)
(*                                                                         *)
(* Units: coordinates are whole degrees (the floats of the decoder).  The   *)
(* local clock is read in half seconds and is taken to advance by one tick *)
(* with every nmr.read().                                                  *)
(***************************************************************************)
EXTENDS Integers, Sequences, FiniteSets, TLC

\* ----------------------------------------------------------------- bounds
\* device operations (Serial(...) calls and nmr.read() calls) start_logging
\* performs before the model stops following it
MaxOps == 5

\* ------------------------------------------------------ program constants
\* gps.py:81  max_retries = 3
max_retries == 3
\* gps.py:88  for _ in range(100)
MaxAttempts == 100

\* ------------------------------------------------------- decoded sentences
\* An empty NMEA field: pynmeagps leaves "" in the attribute.
Empty == <<>>
\* A float attribute of the decoded message.
Num(v) == <<v>>
\* A decoded time of day (datetime.time), as <<hour, minute, second>>.
T1 == <<23, 59, 59>>

Msg(id, t, la, lo) == [kind |-> "msg", msgID |-> id, time |-> t, lat |-> la, lon |-> lo]

\* What one nmr.read() can deliver: a decoded message, (None, None) on a
\* timeout with no bytes, or an exception out of the decoder or the port.
Sentences ==
    {Msg("GGA", T1, Num(-1), Num(2)), Msg("GGA", T1, Num(0), Num(2)),
     Msg("GGA", T1, Num(-1), Num(0)), Msg("GGA", T1, Empty, Num(2)),
     Msg("GGA", T1, Num(-1), Empty), Msg("GGA", Empty, Empty, Empty),
     Msg("RMC", T1, Num(-1), Num(2)),
     [kind |-> "None"], [kind |-> "NMEAParseError"], [kind |-> "SerialException"]}

ReadExceptions == {"NMEAParseError", "SerialException"}

\* Python truthiness of a decoded field: "" and 0.0 are both falsy.
Truthy(v) == v # Empty /\ v[1] # 0

\* float(x) of a float attribute.
Float(v) == v[1]

Digit(d) ==
    CASE d = 0 -> "0" [] d = 1 -> "1" [] d = 2 -> "2" [] d = 3 -> "3" [] d = 4 -> "4"
      [] d = 5 -> "5" [] d = 6 -> "6" [] d = 7 -> "7" [] d = 8 -> "8" [] d = 9 -> "9"

Pad2(n) == Digit(n \div 10) \o Digit(n % 10)

\* str(parsed_data.time): "HH:MM:SS" of a datetime.time, "" of an empty field.
StrTime(t) ==
    IF t = Empty THEN "" ELSE Pad2(t[1]) \o ":" \o Pad2(t[2]) \o ":" \o Pad2(t[3])

\* No fix / Python None, and one value wrapped.
None == <<>>
Some(f) == <<f>>

\* Extract without the msgID test: any decoded message with coordinates is a fix.
Extract_AnyMsg(s, t) ==
    IF s.kind = "msg"
    THEN IF Truthy(s.lat) /\ Truthy(s.lon)
         THEN Some([pc_time |-> t, nmea_time |-> StrTime(s.time),
                    latitude |-> Float(s.lat), longitude |-> Float(s.lon)])
         ELSE None
    ELSE None

\* The extraction both loops run on a read result (gps.py:91-103, 134-141):
\* Some(fix) when the message is a GGA whose lat and lon are both truthy,
\* None otherwise.  t is the datetime.now() reading.
Extract(s, t) ==
    IF s.kind = "msg" /\ s.msgID = "GGA"
    THEN IF Truthy(s.lat) /\ Truthy(s.lon)
         THEN Some([pc_time |-> t, nmea_time |-> StrTime(s.time),
                    latitude |-> Float(s.lat), longitude |-> Float(s.lon)])
         ELSE None
    ELSE None

\* ------------------------------------------------------------------ sinks
Header == <<"pc_time", "nmea_time", "latitude", "longitude">>

NoFile == [exists |-> FALSE, rows |-> <<>>]

\* _init_csv opening the file with mode "w" whether or not it exists.
_init_csv_truncate(csv) == [exists |-> TRUE, rows |-> <<Header>>]

\* gps.py:33-38
_init_csv(csv) ==
    IF csv.exists THEN csv ELSE [exists |-> TRUE, rows |-> <<Header>>]

\* gps.py:44-51  the columns of CREATE TABLE gps
CreateColumns ==
    {"id", "datetime_utc", "nmea_time", "latitude", "longitude", "created_at"}

\* gps.py:69  the columns the INSERT names
InsertColumns == {"datetime_utc", "nmea_time_utc", "latitude", "longitude"}

NoTable == [exists |-> FALSE, columns |-> {}, rows |-> <<>>]

\* A gps table that was in the database file before this program ran and
\* has the column the INSERT names (CREATE TABLE IF NOT EXISTS keeps it).
ForeignTable ==
    [exists |-> TRUE,
     columns |-> {"id", "datetime_utc", "nmea_time_utc", "latitude", "longitude", "created_at"},
     rows |-> <<>>]

\* gps.py:40-52
_init_db(db) ==
    IF db.exists THEN db
    ELSE [exists |-> TRUE, columns |-> CreateColumns, rows |-> <<>>]

\* gps.py:63-64  int(datetime.fromisoformat(pc_time).timestamp())
UnixTimestamp(pc_time) == pc_time \div 2

CsvRow(f) == <<f.pc_time, f.nmea_time, f.latitude, f.longitude>>

DbRow(db, f) ==
    [id |-> Len(db.rows) + 1, datetime_utc |-> UnixTimestamp(f.pc_time),
     nmea_time_utc |-> f.nmea_time, latitude |-> f.latitude, longitude |-> f.longitude]

\* What the environment does to one _log_data call.
SinkOutcomes == {"ok", "csv_error", "db_error", "kbd_csv", "kbd_db"}

CsvAppend(csv, f) == [csv EXCEPT !.rows = Append(@, CsvRow(f))]

\* gps.py:67-72  the INSERT succeeds only on a table that has its columns
InsertAccepted(db) == db.exists /\ InsertColumns \subseteq db.columns

DbInsert(db, f) == [db EXCEPT !.rows = Append(@, DbRow(db, f))]

\* _log_data with one try block per sink: a failed append no longer skips the INSERT.
_log_data_independent(csv, db, f, out) ==
    IF out = "kbd_csv" THEN
        [csv |-> csv, db |-> db, attempted |-> FALSE, logged |-> FALSE,
         error |-> FALSE, raised |-> TRUE]
    ELSE IF out = "csv_error" THEN
        [csv |-> csv, db |-> IF InsertAccepted(db) THEN DbInsert(db, f) ELSE db,
         attempted |-> TRUE, logged |-> FALSE, error |-> TRUE, raised |-> FALSE]
    ELSE IF out = "kbd_db" THEN
        [csv |-> CsvAppend(csv, f), db |-> db, attempted |-> FALSE, logged |-> FALSE,
         error |-> FALSE, raised |-> TRUE]
    ELSE IF out = "ok" /\ InsertAccepted(db) THEN
        [csv |-> CsvAppend(csv, f), db |-> DbInsert(db, f), attempted |-> TRUE,
         logged |-> TRUE, error |-> FALSE, raised |-> FALSE]
    ELSE
        [csv |-> CsvAppend(csv, f), db |-> db, attempted |-> TRUE, logged |-> FALSE,
         error |-> TRUE, raised |-> FALSE]

\* _log_data with the INSERT placed before the append.
_log_data_insert_first(csv, db, f, out) ==
    IF out = "kbd_db" THEN
        [csv |-> csv, db |-> db, attempted |-> FALSE, logged |-> FALSE,
         error |-> FALSE, raised |-> TRUE]
    ELSE IF out = "db_error" \/ ~InsertAccepted(db) THEN
        [csv |-> csv, db |-> db, attempted |-> TRUE, logged |-> FALSE,
         error |-> TRUE, raised |-> FALSE]
    ELSE IF out = "kbd_csv" THEN
        [csv |-> csv, db |-> DbInsert(db, f), attempted |-> TRUE, logged |-> FALSE,
         error |-> FALSE, raised |-> TRUE]
    ELSE IF out = "csv_error" THEN
        [csv |-> csv, db |-> DbInsert(db, f), attempted |-> TRUE, logged |-> FALSE,
         error |-> TRUE, raised |-> FALSE]
    ELSE
        [csv |-> CsvAppend(csv, f), db |-> DbInsert(db, f), attempted |-> TRUE,
         logged |-> TRUE, error |-> FALSE, raised |-> FALSE]

\* gps.py:54-77  _log_data(pc_time, nmea_time, latitude, longitude).
\*   csv, db    the sinks after the call
\*   attempted  the INSERT was executed
\*   logged     "Logged GPS" was written
\*   error      "Error logging data" was written
\*   raised     a KeyboardInterrupt left the call
_log_data(csv, db, f, out) ==
    IF out = "kbd_csv" THEN
        [csv |-> csv, db |-> db, attempted |-> FALSE, logged |-> FALSE,
         error |-> FALSE, raised |-> TRUE]
    ELSE IF out = "csv_error" THEN
        [csv |-> csv, db |-> db, attempted |-> FALSE, logged |-> FALSE,
         error |-> TRUE, raised |-> FALSE]
    ELSE IF out = "kbd_db" THEN
        [csv |-> CsvAppend(csv, f), db |-> db, attempted |-> FALSE, logged |-> FALSE,
         error |-> FALSE, raised |-> TRUE]
    ELSE IF out = "ok" /\ InsertAccepted(db) THEN
        [csv |-> CsvAppend(csv, f), db |-> DbInsert(db, f), attempted |-> TRUE,
         logged |-> TRUE, error |-> FALSE, raised |-> FALSE]
    ELSE
        [csv |-> CsvAppend(csv, f), db |-> db, attempted |-> TRUE, logged |-> FALSE,
         error |-> TRUE, raised |-> FALSE]

\* ------------------------------------------------------------------ state
VARIABLES
    pc,            \* position of the process
    mode,          \* "none", "continuous" or "single"
    csvFile,       \* the flat file
    dbTable,       \* the gps table of the database file
    csv0,          \* history: the flat file as the process found it
    db0,           \* history: the gps table as the process found it
    serialOpen,    \* the Serial context manager holds an open port
    broken,        \* a read on the open port raised SerialException
    retry,         \* read_gga_single: index of the outer for loop
    attempt,       \* read_gga_single: sentences examined on this connection
    result,        \* read_gga_single: the returned dict, None if none
    lastRead,      \* what the last nmr.read() delivered
    fix,           \* what the extraction made of lastRead
    openAttempts,  \* history: Serial(...) calls
    serialFails,   \* history: opens that raised SerialException
    otherFails,    \* history: opens that raised another Exception
    connSleeps,    \* history: completed sleeps after a failed open
    reads,         \* history: nmr.read() calls
    readOnBroken,  \* history: a read was issued on a port that had raised SerialException
    validSeen,     \* history: GGA messages with numeric lat and lon start_logging read, in order
    logCalls,      \* history: fixes handed to _log_data
    dbAttempts,    \* history: fixes whose INSERT was executed
    logged,        \* history: fixes confirmed by "Logged GPS"
    sinkFault,     \* history: the environment disturbed a _log_data call
    kbd            \* history: a KeyboardInterrupt was delivered

vars ==
    <<pc, mode, csvFile, dbTable, csv0, db0, serialOpen, broken, retry, attempt, result, lastRead,
      fix, openAttempts, serialFails, otherFails, connSleeps, reads,
      readOnBroken, validSeen, logCalls, dbAttempts, logged, sinkFault, kbd>>

sinks == <<csvFile, dbTable, csv0, db0>>
single == <<retry, attempt, result>>
opens == <<openAttempts, serialFails, otherFails, connSleeps>>
stream == <<lastRead, fix, reads, readOnBroken, validSeen>>
persist == <<logCalls, dbAttempts, logged, sinkFault>>

\* A fix an earlier run persisted (its clock reading precedes every Clock(n)).
PriorFix == [pc_time |-> 0, nmea_time |-> "23:59:59", latitude |-> -1, longitude |-> 2]

\* The files found on disk when the process starts: nothing, the files an
\* earlier run of this program left (without and with a data row), or a
\* database another schema made (empty, and with a row while the flat file
\* was started afresh).
InitialFiles ==
    {<<NoFile, NoTable>>,
     <<_init_csv(NoFile), _init_db(NoTable)>>,
     <<_init_csv(NoFile), ForeignTable>>,
     <<CsvAppend(_init_csv(NoFile), PriorFix), _init_db(NoTable)>>,
     <<_init_csv(NoFile), DbInsert(ForeignTable, PriorFix)>>}

Init ==
    /\ pc = "main"
    /\ mode = "none"
    /\ \E fs \in InitialFiles : csvFile = fs[1] /\ dbTable = fs[2]
    /\ csv0 = csvFile
    /\ db0 = dbTable
    /\ serialOpen = FALSE
    /\ broken = FALSE
    /\ retry = 0
    /\ attempt = 0
    /\ result = None
    /\ lastRead = [kind |-> "None"]
    /\ fix = None
    /\ openAttempts = 0
    /\ serialFails = 0
    /\ otherFails = 0
    /\ connSleeps = 0
    /\ reads = 0
    /\ readOnBroken = FALSE
    /\ validSeen = <<>>
    /\ logCalls = <<>>
    /\ dbAttempts = <<>>
    /\ logged = <<>>
    /\ sinkFault = FALSE
    /\ kbd = FALSE

\* GPS messages with numeric latitude and longitude.
ValidGGA(s) == s.kind = "msg" /\ s.msgID = "GGA" /\ s.lat # Empty /\ s.lon # Empty

\* datetime.now() (gps.py:95, 138) during the read that follows n reads.
Clock(n) == n + 1

OpenOutcomes == {"ok", "SerialException", "Exception"}

\* ------------------------------------------------------------------- main
\* main.py:98-107  GPSLogger(...) then start_logging()
MainContinuous ==
    /\ pc = "main"
    /\ mode' = "continuous"
    /\ csvFile' = _init_csv(csvFile)
    /\ dbTable' = _init_db(dbTable)
    /\ pc' = "connecting"
    /\ UNCHANGED <<csv0, db0, serialOpen, broken, single, opens, stream, persist, kbd>>

\* main.py:84-87, gps.py:166-178  read_GPS: GPSLogger(port, baudrate) then read_gga_single()
read_GPS ==
    /\ pc = "main"
    /\ mode' = "single"
    /\ csvFile' = _init_csv(csvFile)
    /\ dbTable' = _init_db(dbTable)
    /\ pc' = "s_open"
    /\ UNCHANGED <<csv0, db0, serialOpen, broken, single, opens, stream, persist, kbd>>

\* ------------------------------------------------- start_logging (gps.py:122-163)
\* AfterOpen with the sleep missing from the generic except clause.
AfterOpen_NoBackoff(o) ==
    IF o = "ok" THEN "streaming"
    ELSE IF o = "Exception" THEN "connecting"
    ELSE "conn_sleep"

\* gps.py:128, 154-163  where the outer loop goes after Serial(...): into the
\* inner loop, or to the 1 second sleep of either except clause.
AfterOpen(o) == IF o = "ok" THEN "streaming" ELSE "conn_sleep"

\* gps.py:127-129, 154-163  one pass of the outer loop up to its sleep
Open ==
    /\ pc = "connecting"
    /\ openAttempts + reads < MaxOps
    /\ \E o \in OpenOutcomes :
          /\ openAttempts' = openAttempts + 1
          /\ serialFails' = serialFails + (IF o = "SerialException" THEN 1 ELSE 0)
          /\ otherFails' = otherFails + (IF o = "Exception" THEN 1 ELSE 0)
          /\ serialOpen' = (o = "ok")
          /\ pc' = AfterOpen(o)
    /\ broken' = FALSE
    /\ UNCHANGED <<mode, sinks, single, connSleeps, stream, persist, kbd>>

\* gps.py:157-158, 162-163  time.sleep(1); continue
ConnSleep ==
    /\ pc = "conn_sleep"
    /\ connSleeps' = connSleeps + 1
    /\ pc' = "connecting"
    /\ UNCHANGED <<mode, sinks, serialOpen, broken, single, openAttempts, serialFails,
                   otherFails, stream, persist, kbd>>

\* AfterReadError giving up on a serial error instead of sleeping.
AfterReadError_Stop(e) == IF e = "SerialException" THEN "returned" ELSE "read_sleep"

\* AfterReadError leaving the inner loop on a parse error, to reconnect.
AfterReadError_Reconnect(e) == IF e = "NMEAParseError" THEN "conn_sleep" ELSE "read_sleep"

\* gps.py:146-149  where the inner loop goes after nmr.read() raised e: the
\* handler sleeps and continues the inner loop, whatever e is.
AfterReadError(e) == "read_sleep"

\* gps.py:131-149  one pass of the inner loop: read, extract, _log_data.
\* s is what nmr.read() delivered, out what happens to the sinks.
Iteration(s, out) ==
    LET f == IF s.kind \in ReadExceptions THEN None ELSE Extract(s, Clock(reads))
        r == IF f = None
             THEN [csv |-> csvFile, db |-> dbTable, attempted |-> FALSE,
                   logged |-> FALSE, error |-> FALSE, raised |-> FALSE]
             ELSE _log_data(csvFile, dbTable, f[1], out)
    IN  /\ reads' = reads + 1
        /\ readOnBroken' = (readOnBroken \/ broken)
        /\ lastRead' = s
        /\ fix' = f
        /\ validSeen' = IF ValidGGA(s) THEN Append(validSeen, s) ELSE validSeen
        /\ broken' = (broken \/ s.kind = "SerialException")
        /\ csvFile' = r.csv
        /\ dbTable' = r.db
        /\ logCalls' = IF f = None THEN logCalls ELSE Append(logCalls, f[1])
        /\ dbAttempts' = IF r.attempted THEN Append(dbAttempts, f[1]) ELSE dbAttempts
        /\ logged' = IF r.logged THEN Append(logged, f[1]) ELSE logged
        /\ sinkFault' = (sinkFault \/ (f # None /\ out # "ok"))
        /\ kbd' = (kbd \/ r.raised)
        /\ serialOpen' = ~r.raised
        /\ pc' = IF s.kind \in ReadExceptions THEN AfterReadError(s.kind)
                  ELSE IF r.raised THEN "returned"
                  ELSE "streaming"

ReadSentence ==
    /\ pc = "streaming"
    /\ openAttempts + reads < MaxOps
    /\ \E s \in Sentences :
          IF s.kind \notin ReadExceptions /\ Extract(s, Clock(reads)) # None
          THEN \E out \in SinkOutcomes : Iteration(s, out)
          ELSE Iteration(s, "ok")
    /\ UNCHANGED <<mode, csv0, db0, single, opens>>

\* gps.py:148-149  time.sleep(1); continue
ReadSleep ==
    /\ pc = "read_sleep"
    /\ pc' = "streaming"
    /\ UNCHANGED <<mode, sinks, serialOpen, broken, single, opens, stream, persist, kbd>>

\* Interrupt with a bare except clause in the inner loop: a Ctrl-C during
\* nmr.read() is handled like any read error, by a sleep and the next read.
Interrupt_Swallowed ==
    /\ mode = "continuous"
    /\ pc \in {"connecting", "streaming", "read_sleep", "conn_sleep"}
    /\ kbd' = TRUE
    /\ serialOpen' = (pc = "streaming" /\ serialOpen)
    /\ pc' = IF pc = "streaming" THEN "read_sleep"
              ELSE IF pc = "conn_sleep" THEN "raised" ELSE "returned"
    /\ UNCHANGED <<mode, sinks, broken, single, opens, stream, persist>>

\* gps.py:143-145, 151-153; main.py:108  Ctrl-C while start_logging waits in
\* Serial(...), in nmr.read() or in a sleep.  The handlers of the inner try
\* return, the outer one breaks; a KeyboardInterrupt raised inside the outer
\* except clauses leaves start_logging as an exception.
Interrupt ==
    /\ mode = "continuous"
    /\ pc \in {"connecting", "streaming", "read_sleep", "conn_sleep"}
    /\ kbd' = TRUE
    /\ serialOpen' = FALSE
    /\ pc' = IF pc = "conn_sleep" THEN "raised" ELSE "returned"
    /\ UNCHANGED <<mode, sinks, broken, single, opens, stream, persist>>

\* ----------------------------------------------- read_gga_single (gps.py:79-120)
\* AfterSingleOpen returning None on the first SerialException.
AfterSingleOpen_NoRetry(o, r) == IF o = "ok" THEN "s_read" ELSE "returned"

\* gps.py:84, 112-120  where the outer for loop goes after Serial(...): into
\* the inner loop; on SerialException to the sleep unless this was the last
\* retry; on any other exception out, returning None.
AfterSingleOpen(o, r) ==
    IF o = "ok" THEN "s_read"
    ELSE IF o = "SerialException" /\ r < max_retries - 1 THEN "s_open_sleep"
    ELSE "returned"

\* gps.py:82-85, 112-120  one pass of the outer for loop up to its sleep
SingleOpen ==
    /\ pc = "s_open"
    /\ \E o \in OpenOutcomes :
          /\ openAttempts' = openAttempts + 1
          /\ serialFails' = serialFails + (IF o = "SerialException" THEN 1 ELSE 0)
          /\ otherFails' = otherFails + (IF o = "Exception" THEN 1 ELSE 0)
          /\ serialOpen' = (o = "ok")
          /\ pc' = AfterSingleOpen(o, retry)
    /\ broken' = FALSE
    /\ attempt' = 0
    /\ result' = None
    /\ UNCHANGED <<mode, sinks, retry, connSleeps, stream, persist, kbd>>

\* gps.py:115-116, 82  time.sleep(1); continue: the for loop takes its next
\* index and ends (the function then returns None) when there is none.
SingleOpenSleep ==
    /\ pc = "s_open_sleep"
    /\ connSleeps' = connSleeps + 1
    /\ retry' = retry + 1
    /\ pc' = IF retry + 1 < max_retries THEN "s_open" ELSE "returned"
    /\ UNCHANGED <<mode, sinks, serialOpen, broken, attempt, result, openAttempts,
                   serialFails, otherFails, stream, persist, kbd>>

\* gps.py:88, 109-110  the inner for loop after pass number n (counted from
\* 1): the next pass, or "No valid GGA message received" and return None.
AfterAttempt(n, next) == IF n < MaxAttempts THEN next ELSE "returned"

\* gps.py:88-107  one pass of the inner for loop: read, extract, return
SingleRead ==
    /\ pc = "s_read"
    /\ \E s \in Sentences :
          LET f == IF s.kind \in ReadExceptions THEN None ELSE Extract(s, Clock(reads))
              to == IF s.kind \in ReadExceptions THEN "s_read_sleep"
                    ELSE IF f # None THEN "returned"
                    ELSE AfterAttempt(attempt + 1, "s_read")
          IN  /\ attempt' = attempt + 1
              /\ reads' = reads + 1
              /\ readOnBroken' = (readOnBroken \/ broken)
              /\ lastRead' = s
              /\ fix' = f
              /\ broken' = (broken \/ s.kind = "SerialException")
              /\ result' = f
              /\ pc' = to
              /\ serialOpen' = (to # "returned")
    /\ UNCHANGED <<mode, sinks, retry, opens, validSeen, persist, kbd>>

\* SingleReadSleep leaving the with block after a serial error, for the next
\* pass of the outer loop.
SingleReadSleep_Reconnect ==
    /\ pc = "s_read_sleep"
    /\ pc' = IF ~broken THEN AfterAttempt(attempt, "s_read")
              ELSE IF retry + 1 < max_retries THEN "s_open" ELSE "returned"
    /\ retry' = IF broken THEN retry + 1 ELSE retry
    /\ serialOpen' = (pc' = "s_read")
    /\ UNCHANGED <<mode, sinks, broken, attempt, result, opens, stream, persist, kbd>>

\* gps.py:104-107  time.sleep(1); continue
SingleReadSleep ==
    /\ pc = "s_read_sleep"
    /\ pc' = AfterAttempt(attempt, "s_read")
    /\ serialOpen' = (pc' # "returned")
    /\ UNCHANGED <<mode, sinks, broken, single, opens, stream, persist, kbd>>

\* SingleInterrupt without the with statement: the port stays open when the
\* KeyboardInterrupt leaves the function.
SingleInterrupt_Leak ==
    /\ mode = "single"
    /\ pc \in {"s_open", "s_open_sleep", "s_read", "s_read_sleep"}
    /\ kbd' = TRUE
    /\ pc' = "raised"
    /\ UNCHANGED <<mode, sinks, serialOpen, broken, single, opens, stream, persist>>

\* No clause of read_gga_single catches KeyboardInterrupt: it leaves the
\* function (and read_GPS, and main) as an exception; the with statement
\* closes the port on the way out.
SingleInterrupt ==
    /\ mode = "single"
    /\ pc \in {"s_open", "s_open_sleep", "s_read", "s_read_sleep"}
    /\ kbd' = TRUE
    /\ serialOpen' = FALSE
    /\ pc' = "raised"
    /\ UNCHANGED <<mode, sinks, broken, single, opens, stream, persist>>

\* ------------------------------------------------------------ specification
Next ==
    \/ MainContinuous
    \/ read_GPS
    \/ Open
    \/ ConnSleep
    \/ ReadSentence
    \/ ReadSleep
    \/ Interrupt
    \/ SingleOpen
    \/ SingleOpenSleep
    \/ SingleRead
    \/ SingleReadSleep
    \/ SingleInterrupt

Spec == Init /\ [][Next]_vars

Terminal == {"returned", "raised"}

\* read_gga_single is sequential code: Serial(...) returns or raises, a read
\* on a port opened with a timeout returns or raises, and a sleep ends, so
\* each of its steps is taken once it is the next one.
FairSingle ==
    /\ Spec
    /\ WF_vars(SingleOpen)
    /\ WF_vars(SingleOpenSleep)
    /\ WF_vars(SingleRead)
    /\ WF_vars(SingleReadSleep)

\* ------------------------------------------------------------------ claims
\* The data rows this process appended to the flat file: the rows after the
\* header and after the rows the process found.
DataRows(csv) ==
    SubSeq(csv.rows, (IF Len(csv0.rows) = 0 THEN 1 ELSE Len(csv0.rows)) + 1, Len(csv.rows))

\* The rows this process inserted into the table.
TableRows(db) == SubSeq(db.rows, Len(db0.rows) + 1, Len(db.rows))

\* Opens that failed, of either kind.
OpenFailures == serialFails + otherFails

\* A csv row, a table row and a fix that describe the same fix.
CsvRowOf(row, f) == row = <<f.pc_time, f.nmea_time, f.latitude, f.longitude>>

DbRowOf(row, f) ==
    /\ row.datetime_utc = f.pc_time \div 2
    /\ row.nmea_time_utc = f.nmea_time
    /\ row.latitude = f.latitude
    /\ row.longitude = f.longitude

\* A fix that carries the fields of the decoded sentence s.
FixOf(f, s) ==
    /\ f.nmea_time = StrTime(s.time)
    /\ f.latitude = s.lat[1]
    /\ f.longitude = s.lon[1]

\* C1: in continuous mode no read is issued on a connection after a read on
\* it raised a SerialException (the loop reconnects instead).
C1_NoReadAfterConnectionError == mode = "continuous" => ~readOnBroken

\* C2: after init and N _log_data calls with both sinks available, the flat
\* file holds the header plus N data rows, the table holds N rows, and the
\* i-th file row and the i-th table row describe the i-th fix.
C2_BothSinksHoldEveryFix ==
    (mode = "continuous" /\ ~sinkFault) =>
        /\ csvFile.rows[1] = Header
        /\ Len(DataRows(csvFile)) = Len(logCalls)
        /\ Len(TableRows(dbTable)) = Len(logCalls)
        /\ \A i \in 1 .. Len(logCalls) :
              /\ CsvRowOf(DataRows(csvFile)[i], logCalls[i])
              /\ DbRowOf(TableRows(dbTable)[i], logCalls[i])

\* C3: with the sinks undisturbed, the fixes persisted by the continuous loop
\* are exactly the GGA sentences with numeric latitude and longitude that
\* were read, in arrival order, each once.
C3_PersistedIsValidSubsequence ==
    (mode = "continuous" /\ ~sinkFault) =>
        /\ Len(DataRows(csvFile)) = Len(validSeen)
        /\ \A i \in 1 .. Len(validSeen) :
              /\ DataRows(csvFile)[i][2] = StrTime(validSeen[i].time)
              /\ DataRows(csvFile)[i][3] = validSeen[i].lat[1]
              /\ DataRows(csvFile)[i][4] = validSeen[i].lon[1]

\* C4: in continuous mode every failed open is followed by exactly one
\* backoff sleep and another open: with k failed opens the loop is streaming
\* after k sleeps and k+1 opens, and a failed open never ends the loop.
C4_OpenRetriedAfterBackoff ==
    mode = "continuous" =>
        /\ serialOpen => (openAttempts = OpenFailures + 1 /\ connSleeps = OpenFailures)
        /\ pc = "connecting" => (openAttempts = OpenFailures /\ connSleeps = OpenFailures)
        /\ pc = "conn_sleep" => (openAttempts = OpenFailures /\ connSleeps + 1 = OpenFailures)
        /\ (pc \in Terminal /\ ~kbd) => OpenFailures = 0

C4_Witness ==
    /\ mode = "continuous"
    /\ pc = "streaming"
    /\ OpenFailures = 2
    /\ connSleeps = 2
    /\ openAttempts = 3

\* C5: in single-shot mode at most 3 opens are attempted, and when every
\* open raised SerialException the call returns None after exactly 3 opens.
C5_SingleShotOpenBudget ==
    mode = "single" =>
        /\ openAttempts <= 3
        /\ (pc = "returned" /\ serialFails = openAttempts) =>
              (openAttempts = 3 /\ result = None)

C5_Witness ==
    /\ mode = "single"
    /\ pc = "returned"
    /\ serialFails = 3
    /\ openAttempts = 3
    /\ result = None

\* C6: start_logging ends only when a KeyboardInterrupt was delivered; no
\* open failure, read error, invalid sentence or persist failure ends it.
C6_OnlyCancellationStops == (mode = "continuous" /\ pc \in Terminal) => kbd

C6_Witness ==
    /\ mode = "continuous"
    /\ pc = "streaming"
    /\ serialFails >= 1
    /\ otherFails >= 1
    /\ broken
    /\ sinkFault
    /\ ~kbd

\* C7: every GGA sentence with numeric latitude and longitude (0 and
\* negative values included) yields a fix that carries its time, latitude
\* and longitude.
C7_NumericGGAYieldsFix ==
    ValidGGA(lastRead) => (fix # None /\ FixOf(fix[1], lastRead))

\* C8: a sentence that is not a GGA, or a GGA without latitude or longitude,
\* yields no fix, and nothing is persisted or returned for it; every fix
\* extracted, persisted or returned comes from a GGA sentence that has both.
C8_NoPartialFix ==
    /\ ~ValidGGA(lastRead) => (fix = None /\ result = None)
    /\ fix # None => FixOf(fix[1], lastRead)
    /\ result # None => (result = fix /\ ValidGGA(lastRead))
    /\ (mode = "continuous" /\ reads > 0 /\ ~ValidGGA(lastRead)) =>
          /\ \A i \in 1 .. Len(logCalls) : logCalls[i].pc_time # Clock(reads - 1)
          /\ \A i \in 1 .. Len(DataRows(csvFile)) : DataRows(csvFile)[i][1] # Clock(reads - 1)
    /\ \A i \in 1 .. Len(logCalls) :
          \E j \in 1 .. Len(validSeen) : FixOf(logCalls[i], validSeen[j])
    /\ \A i \in 1 .. Len(DataRows(csvFile)) :
          \E j \in 1 .. Len(logCalls) : CsvRowOf(DataRows(csvFile)[i], logCalls[j])
    /\ \A i \in 1 .. Len(TableRows(dbTable)) :
          \E j \in 1 .. Len(logCalls) : DbRowOf(TableRows(dbTable)[i], logCalls[j])

C8_Witness ==
    /\ mode = "continuous"
    /\ lastRead = Msg("GGA", T1, Num(-1), Empty)
    /\ fix = None
    /\ Len(logCalls) = 1
    /\ Len(DataRows(csvFile)) = 1

\* C9 as stated: the sinks are independent, so every fix handed to _log_data
\* has its INSERT executed whatever became of the append, and the loop
\* reads on.
C9_SinksIndependent ==
    (mode = "continuous" /\ ~kbd) =>
        /\ dbAttempts = logCalls
        /\ pc \notin Terminal

\* C9 amended: a persist failure never ends the loop or replaces the
\* connection, and nothing written is rolled back; the INSERT is executed
\* exactly for the fixes whose append succeeded (a failed append skips it),
\* and a failed INSERT leaves the appended row in the file.
C9_BestEffortInOrder ==
    (mode = "continuous" /\ ~kbd) =>
        /\ sinkFault => (pc \in {"streaming", "read_sleep"} /\ serialOpen
                          /\ openAttempts = OpenFailures + 1)
        /\ Len(DataRows(csvFile)) = Len(dbAttempts)
        /\ \A i \in 1 .. Len(dbAttempts) : CsvRowOf(DataRows(csvFile)[i], dbAttempts[i])
        /\ Len(TableRows(dbTable)) = Len(logged)
        /\ \A i \in 1 .. Len(logged) : DbRowOf(TableRows(dbTable)[i], logged[i])
        /\ Len(logged) <= Len(dbAttempts)
        /\ Len(dbAttempts) <= Len(logCalls)

C9_Witness ==
    /\ mode = "continuous"
    /\ pc = "streaming"
    /\ InsertAccepted(dbTable)
    /\ Len(logCalls) = 3
    /\ Len(dbAttempts) = 2
    /\ Len(DataRows(csvFile)) = 2
    /\ Len(TableRows(dbTable)) = 1

\* C10: "Logged GPS" is written for a fix only after its row is in the flat
\* file and in the table, and with both sinks available it is written for
\* every accepted fix.
C10_LoggedAfterBothSinks ==
    (mode = "continuous" /\ ~sinkFault) =>
        /\ logged = logCalls
        /\ \A i \in 1 .. Len(logged) :
              /\ \E j \in 1 .. Len(DataRows(csvFile)) : CsvRowOf(DataRows(csvFile)[j], logged[i])
              /\ \E j \in 1 .. Len(TableRows(dbTable)) : DbRowOf(TableRows(dbTable)[j], logged[i])

\* C11: a single-shot call (read_GPS) leaves the flat file and the table as
\* they were before it: nothing is created and no row is added.
C11_SingleShotLeavesSinks == mode = "single" => (csvFile = csv0 /\ dbTable = db0)

\* C12: sink initialisation is idempotent. Once __init__ has run, on absent
\* files, on the files an earlier init left or on files that hold rows, and
\* after any number of _log_data calls: the flat file exists with the header
\* as its first row and no other header row, the table exists with the
\* columns it had (those of CREATE TABLE if it was absent), every row found
\* at start is still in place, and running _init_csv and _init_db again
\* would change nothing.
C12_InitIdempotent ==
    pc # "main" =>
        /\ csvFile.exists
        /\ dbTable.exists
        /\ csvFile.rows[1] = Header
        /\ \A i \in 2 .. Len(csvFile.rows) : csvFile.rows[i][2] # Header[2]
        /\ csv0.exists =>
              /\ Len(csvFile.rows) >= Len(csv0.rows)
              /\ SubSeq(csvFile.rows, 1, Len(csv0.rows)) = csv0.rows
        /\ db0.exists =>
              /\ dbTable.columns = db0.columns
              /\ Len(dbTable.rows) >= Len(db0.rows)
              /\ SubSeq(dbTable.rows, 1, Len(db0.rows)) = db0.rows
        /\ ~db0.exists => dbTable.columns = CreateColumns
        /\ _init_csv(csvFile) = csvFile
        /\ _init_db(dbTable) = dbTable

C12_Witness ==
    /\ mode = "continuous"
    /\ pc = "streaming"
    /\ Len(csv0.rows) = 2
    /\ Len(csvFile.rows) = 4
    /\ _init_csv(csvFile) = csvFile

\* A step that treats a parse error as C13 says: in continuous mode the read
\* that raises it leaves the port open and goes to the one second sleep
\* without touching the sinks, handing anything to _log_data or opening
\* again; the sleep, unless interrupted, is followed directly by the inner
\* loop on the same connection.
C13_Step ==
    /\ (mode = "continuous" /\ reads' = reads + 1 /\ lastRead'.kind = "NMEAParseError") =>
          /\ pc' = "read_sleep"
          /\ serialOpen'
          /\ broken' = broken
          /\ fix' = None
          /\ UNCHANGED <<sinks, persist, opens>>
    /\ (mode = "continuous" /\ pc = "read_sleep" /\ lastRead.kind = "NMEAParseError" /\ ~kbd') =>
          /\ pc' = "streaming"
          /\ serialOpen'
          /\ UNCHANGED <<sinks, persist, opens, reads, broken>>

\* C13: a parse error on a read is not fatal: every step of start_logging
\* keeps the connection, sleeps once and reads on, persisting nothing for it.
C13_ParseErrorNonFatal == [][C13_Step]_vars

C13_Witness ==
    /\ mode = "continuous"
    /\ pc = "streaming"
    /\ lastRead.kind = "NMEAParseError"
    /\ serialOpen
    /\ openAttempts = 1
    /\ reads = 2
    /\ Len(logCalls) = 1

\* A read of read_gga_single that delivers a GGA sentence with numeric
\* latitude and longitude ends the call, which returns the fix of that sentence.
C14_Step ==
    (mode = "single" /\ reads' = reads + 1 /\ ValidGGA(lastRead')) =>
        /\ pc' = "returned"
        /\ result' # None
        /\ FixOf(result'[1], lastRead')

\* C14: a single-shot call always terminates, whatever the device does: it
\* examines at most 100 sentences per connection attempt, opens at most 3
\* times, and returns the first valid fix read, otherwise None.
C14_SingleShotTerminates ==
    /\ (mode = "single") ~> (pc \in Terminal)
    /\ [](mode = "single" =>
            /\ attempt <= MaxAttempts
            /\ openAttempts <= max_retries
            /\ (pc = "returned" /\ result # None) => (result = fix /\ ValidGGA(lastRead)))
    /\ [][C14_Step]_vars

\* The step that delivers a KeyboardInterrupt to start_logging ends it with
\* the port closed, without an open and without a "Logged GPS"; unless it
\* arrives inside the pass that is reading and persisting, nothing is read or
\* written in that step.  After it no step is taken.
C15_Step ==
    /\ (mode = "continuous" /\ ~kbd /\ kbd') =>
          /\ pc' \in Terminal
          /\ ~serialOpen'
          /\ UNCHANGED <<opens, logged>>
          /\ pc # "streaming" => UNCHANGED <<reads, sinks, persist>>
          /\ Len(dbTable'.rows) = Len(dbTable.rows)
    /\ (mode = "continuous" /\ kbd) => UNCHANGED vars

\* C15: a KeyboardInterrupt delivered while start_logging is connecting,
\* reading, persisting or sleeping ends the loop: the port is closed and no
\* further open, read or persist is issued.
C15_CancellationHonoured ==
    /\ []((mode = "continuous" /\ kbd) => (pc \in Terminal /\ ~serialOpen))
    /\ [][C15_Step]_vars

C15_Witness ==
    /\ mode = "continuous"
    /\ kbd
    /\ pc = "returned"
    /\ ~serialOpen
    /\ Len(logCalls) = 2
    /\ Len(DataRows(csvFile)) = 2
    /\ Len(dbAttempts) = 1

\* A step never opens a port while one is open, and a step that leaves the
\* inner loop of either mode closes the port.
C16_Step ==
    /\ openAttempts' # openAttempts => ~serialOpen
    /\ (serialOpen /\ pc' \notin {"streaming", "read_sleep", "s_read", "s_read_sleep"}) =>
          ~serialOpen'

\* C16: in both modes at most one serial connection is open at any time, and
\* the port is closed whenever the program is about to open, sleeps before
\* another open, or has returned or raised.
C16_NoLeakedConnection ==
    /\ []((pc \in {"main", "connecting", "conn_sleep", "s_open", "s_open_sleep"} \cup Terminal)
            => ~serialOpen)
    /\ [](serialOpen => openAttempts = OpenFailures + 1)
    /\ [][C16_Step]_vars

C16_Witness ==
    /\ mode = "single"
    /\ pc = "raised"
    /\ reads >= 1
    /\ broken
    /\ ~serialOpen

\* A table row and a file row that hold the same fix.
SameFix(dbrow, csvrow) ==
    /\ dbrow.datetime_utc = csvrow[1] \div 2
    /\ dbrow.nmea_time_utc = csvrow[2]
    /\ dbrow.latitude = csvrow[3]
    /\ dbrow.longitude = csvrow[4]

\* The fixes of the table rows t are a subsequence of those of the file rows c.
RECURSIVE Embeds(_, _)
Embeds(t, c) ==
    IF t = <<>> THEN TRUE
    ELSE IF c = <<>> THEN FALSE
    ELSE IF SameFix(Head(t), Head(c)) THEN Embeds(Tail(t), Tail(c))
    ELSE Embeds(t, Tail(c))

\* C17: the INSERT of a _log_data call is executed only after its append
\* succeeded, so the rows this process inserted are never more than the data
\* rows it appended, and their fixes are a subsequence of the file's fixes.
C17_InsertAfterAppend ==
    /\ Len(dbAttempts) <= Len(DataRows(csvFile))
    /\ \A i \in 1 .. Len(dbAttempts) :
          \E j \in 1 .. Len(DataRows(csvFile)) : CsvRowOf(DataRows(csvFile)[j], dbAttempts[i])
    /\ Len(TableRows(dbTable)) <= Len(DataRows(csvFile))
    /\ Embeds(TableRows(dbTable), DataRows(csvFile))

C17_Witness ==
    /\ mode = "continuous"
    /\ Len(db0.rows) = 1
    /\ Len(logCalls) = 3
    /\ Len(DataRows(csvFile)) = 2
    /\ Len(TableRows(dbTable)) = 1
    /\ SameFix(TableRows(dbTable)[1], DataRows(csvFile)[2])
    /\ ~SameFix(TableRows(dbTable)[1], DataRows(csvFile)[1])

\* Steps of read_gga_single as C18 describes them: Serial(...) is called only
\* while every earlier call failed; a read that raises, whatever it raises,
\* takes one pass of the inner loop and goes to the sleep with the port open
\* and no open counted; the sleep, unless interrupted, leads to the next read
\* on the same connection or, after pass 100, to the return.
C18_Step ==
    mode = "single" =>
        /\ openAttempts' # openAttempts => openAttempts = OpenFailures
        /\ (reads' = reads + 1 /\ lastRead'.kind \in ReadExceptions) =>
              /\ pc' = "s_read_sleep"
              /\ serialOpen'
              /\ attempt' = attempt + 1
              /\ result' = None
              /\ UNCHANGED <<opens, retry>>
        /\ (pc = "s_read_sleep" /\ ~kbd') =>
              /\ pc' = IF attempt < MaxAttempts THEN "s_read" ELSE "returned"
              /\ serialOpen' = (pc' = "s_read")
              /\ UNCHANGED <<opens, retry, attempt, reads>>

\* C18: in single-shot mode only failed opens use up the 3 connection
\* attempts; after a successful open the call never opens again, a read error
\* of any kind costs one of the 100 passes and one sleep, and the whole call
\* reads at most 100 sentences.
C18_SingleConnection ==
    /\ [](mode = "single" =>
            /\ reads <= MaxAttempts
            /\ attempt = reads
            /\ openAttempts <= OpenFailures + 1
            /\ retry <= serialFails
            /\ (pc \in {"s_open", "s_open_sleep"}) => openAttempts = OpenFailures
            /\ (pc = "returned" /\ openAttempts > OpenFailures /\ result = None) =>
                  reads = MaxAttempts)
    /\ [][C18_Step]_vars

C18_Witness ==
    /\ mode = "single"
    /\ pc = "returned"
    /\ result = None
    /\ serialFails = 2
    /\ openAttempts = 3
    /\ broken
    /\ lastRead.kind = "SerialException"
    /\ reads = MaxAttempts

====
